---- MODULE Spec2Model ----
(***************************************************************************)
(* Model of the two sigma-wasm kernels:                                    *)
(*   wasm-fractal-zoom      get_color, generate_fractal                    *)
(*   wasm-babylon-mandelbulb get_palette, get_flat_palette                 *)
(*                                                                         *)
(* f64 values are modelled as exact rationals <<num, den>> in lowest terms *)
(* (den > 0).  An f64 operation returns the real result whenever that      *)
(* result is representable, so the model agrees with the code on every     *)
(* input whose intermediate results are dyadic with a short mantissa; the  *)
(* input sets below are chosen that way (power-of-two image sizes and      *)
(* zooms, integer centres, iteration counts that divide exactly).  The one *)
(* transcendental step, ln(ln(m)) / ln(2), is evaluated to a resolution of *)
(* 1/4 rounded down (see LogLogQuarter).                                   *)
(*                                                                         *)
(* u32 values are modelled with their width: products and sums are taken   *)
(* modulo 2^32 on 16-bit limbs <<hi, lo>>, and overflow_checks says        *)
(* whether the build panics on overflow (debug) or wraps (release).        *)
(***************************************************************************)
EXTENDS Integers, Sequences, FiniteSets, TLC

VARIABLES
    api,             \* the exported function that is executing, or "idle"
    pc,              \* position inside it
    overflow_checks, \* build profile: TRUE panics on integer overflow
    width, height, center_x, center_y, zoom, max_iters, palette_id,
    image_data,      \* the Vec<u8> of generate_fractal
    writes,          \* ghost: number of stores to each byte of image_data
    x, y, cx, cy, zx, zy, iterations,
    color_call,      \* ghost: the latest evaluation of get_color
    id, palette, flat, color_index,   \* locals of the palette provider
    ret              \* value returned by get_palette / get_flat_palette

vars == <<api, pc, overflow_checks, width, height, center_x, center_y, zoom,
          max_iters, palette_id, image_data, writes, x, y, cx, cy, zx, zy,
          iterations, color_call, id, palette, flat, color_index, ret>>

rasterVars == <<width, height, center_x, center_y, zoom, max_iters, palette_id,
                image_data, writes, x, y, cx, cy, zx, zy, iterations>>

bulbVars == <<id, palette, flat, color_index, ret>>

-----------------------------------------------------------------------------
(* Bounds of the model.                                                    *)

\* generate_fractal is called with max_iters in 0..MaxIters and with DeepIters
MaxIters == 3

\* the iteration limit of the inside-the-set boundary case
DeepIters == 100

\* get_color is called directly with iterations = k/8 * max_iterations / 4
\* for k in -MaxEighths..(4 * 8 + MaxEighths)
MaxEighths == 10

\* palette ids tried: 0..MaxPaletteId and a large one
MaxPaletteId == 2

-----------------------------------------------------------------------------
(* Exact rational arithmetic standing for f64.                             *)

Abs(a) == IF a < 0 THEN -a ELSE a

Min(a, b) == IF a < b THEN a ELSE b

RECURSIVE GCD(_, _)
GCD(a, b) == IF b = 0 THEN a ELSE GCD(b, a % b)

Norm(n, d) ==
    LET s == IF d < 0 THEN -1 ELSE 1
        g == GCD(Abs(n), Abs(d))
    IN  <<(s * n) \div g, (s * d) \div g>>

FromInt(n) == <<n, 1>>

FAdd(a, b) == Norm(a[1] * b[2] + b[1] * a[2], a[2] * b[2])

FSub(a, b) == Norm(a[1] * b[2] - b[1] * a[2], a[2] * b[2])

FMul(a, b) == Norm(a[1] * b[1], a[2] * b[2])

\* b # 0: a division by 0.0 is handled where it can happen (get_color)
FDiv(a, b) == Norm(a[1] * b[2], a[2] * b[1])

FLt(a, b) == a[1] * b[2] < b[1] * a[2]

FGe(a, b) == a[1] * b[2] >= b[1] * a[2]

\* f64::floor
Floor(a) == FromInt(a[1] \div a[2])

\* `as usize` of an integral f64: saturating, negative values give 0
F64ToUsize(a) == IF a[1] < 0 THEN 0 ELSE a[1] \div a[2]

\* `as u8` of an f64: truncation toward zero, saturating at 0 and 255
F64ToU8(a) ==
    IF a[1] < 0 THEN 0
    ELSE IF a[1] \div a[2] > 255 THEN 255
    ELSE a[1] \div a[2]

\* `as f64` of a u8 / u32
AsF64(n) == FromInt(n)

-----------------------------------------------------------------------------
(* u32 arithmetic on 16-bit limbs.                                         *)

Limb == 256 * 256

ToU32(n) == <<n \div Limb, n % Limb>>

\* the value of a u32 below 2^31 as an integer
FromU32(u) == u[1] * Limb + u[2]

\* the 32-bit product of two 16-bit limbs, as <<hi, lo>>
Mul16(a, b) ==
    LET p1 == a * (b \div 256)
        p0 == a * (b % 256)
        s  == (p1 % 256) * 256 + p0
    IN  <<(p1 \div 256) + (s \div Limb), s % Limb>>

\* u32 * u32: the wrapped product and whether it overflowed
U32Mul(a, b) ==
    LET ll  == Mul16(a[2], b[2])
        hl  == Mul16(a[1], b[2])
        lh  == Mul16(a[2], b[1])
        mid == ll[1] + hl[2] + lh[2]
    IN  [value    |-> <<mid % Limb, ll[2]>>,
         overflow |-> \/ (a[1] > 0 /\ b[1] > 0)
                      \/ hl[1] > 0
                      \/ lh[1] > 0
                      \/ mid >= Limb]

\* u32 + u32
U32Add(a, b) ==
    LET lo == a[2] + b[2]
        hi == a[1] + b[1] + (lo \div Limb)
    IN  [value |-> <<hi % Limb, lo % Limb>>, overflow |-> hi >= Limb]

U32Lt(a, b) == a[1] < b[1] \/ (a[1] = b[1] /\ a[2] < b[2])

-----------------------------------------------------------------------------
(* wasm-fractal-zoom: palettes and get_color.                              *)

Color(r, g, b) == [r |-> r, g |-> g, b |-> b]

PALETTE0 ==
    << Color(0, 255, 255),
       Color(255, 0, 255),
       Color(128, 0, 255),
       Color(0, 128, 255),
       Color(255, 255, 0) >>

PALETTE1 ==
    << Color(255, 0, 128),
       Color(0, 255, 128),
       Color(128, 0, 255),
       Color(0, 128, 255),
       Color(255, 128, 0) >>

One == FromInt(1)

SelectPalette(pid) == IF pid = 0 THEN PALETTE0 ELSE PALETTE1

\* c1 as f64 * (1.0 - t) + c2 as f64 * t) as u8
Lerp(c1, c2, t) ==
    F64ToU8(FAdd(FMul(AsF64(c1), FSub(One, t)), FMul(AsF64(c2), t)))

\* The record describes one evaluation: black = the early return was taken,
\* normalized/scaled/t = the locals of that name, idx1/idx2 = the indices
\* computed, panic = palette[idx1] is out of bounds, rgb = the value returned
\* when it does not panic.
\* finite = FALSE stands for iterations / 0.0 with iterations < 0: normalized
\* and scaled are -inf, floor is -inf, `as usize` gives 0, t = -inf - -inf is
\* NaN, and NaN `as u8` is 0.
get_color(iters, max_iterations, pid) ==
    IF FGe(iters, max_iterations)
    THEN [black |-> TRUE, finite |-> TRUE, panic |-> FALSE,
          normalized |-> FromInt(0), scaled |-> FromInt(0),
          idx1 |-> 0, idx2 |-> 0, t |-> FromInt(0), rgb |-> <<0, 0, 0>>]
    ELSE IF max_iterations[1] = 0
    THEN [black |-> FALSE, finite |-> FALSE, panic |-> FALSE,
          normalized |-> FromInt(0), scaled |-> FromInt(0),
          idx1 |-> 0, idx2 |-> 1, t |-> FromInt(0), rgb |-> <<0, 0, 0>>]
    ELSE
        LET pal        == SelectPalette(pid)
            n          == AsF64(Len(pal))
            normalized == FDiv(iters, max_iterations)
            scaled     == FMul(normalized, FSub(n, One))
            idx1       == F64ToUsize(Floor(scaled))
            idx2       == Min(idx1 + 1, Len(pal) - 1)
            t          == FSub(scaled, Floor(scaled))
        IN  IF idx1 >= Len(pal)
            THEN [black |-> FALSE, finite |-> TRUE, panic |-> TRUE,
                  normalized |-> normalized, scaled |-> scaled,
                  idx1 |-> idx1, idx2 |-> idx2, t |-> t, rgb |-> <<0, 0, 0>>]
            ELSE
                LET c1 == pal[idx1 + 1]
                    c2 == pal[idx2 + 1]
                IN  [black |-> FALSE, finite |-> TRUE, panic |-> FALSE,
                     normalized |-> normalized, scaled |-> scaled,
                     idx1 |-> idx1, idx2 |-> idx2, t |-> t,
                     rgb |-> <<Lerp(c1.r, c2.r, t),
                               Lerp(c1.g, c2.g, t),
                               Lerp(c1.b, c2.b, t)>>]

-----------------------------------------------------------------------------
(* wasm-fractal-zoom: generate_fractal.                                    *)

Half == <<1, 2>>

Four == FromInt(4)

\* width as f64 / height as f64 (read only inside the pixel loop, height > 0)
aspect_ratio == FDiv(AsF64(width), AsF64(height))

\* (x as f64 / width as f64 - 0.5) * 4.0 * aspect_ratio / zoom + center_x
PixelCx(px) ==
    FAdd(FDiv(FMul(FMul(FSub(FDiv(AsF64(px), AsF64(width)), Half), Four),
                   aspect_ratio), zoom),
         center_x)

\* (y as f64 / height as f64 - 0.5) * 4.0 / zoom + center_y
PixelCy(py) ==
    FAdd(FDiv(FMul(FSub(FDiv(AsF64(py), AsF64(height)), Half), Four), zoom),
         center_y)

\* zx * zx + zy * zy
MagSq(a, b) == FAdd(FMul(a, a), FMul(b, b))

\* faulty variant of LoopCond: the iteration limit is dropped
LoopCond_NoLimit == FLt(MagSq(zx, zy), Four)

\* zx * zx + zy * zy < 4.0 && iterations < max_iters
LoopCond == FLt(MagSq(zx, zy), Four) /\ iterations < max_iters

\* Upper ends, rounded up, of e^(2^(j/4)) for j = 1..17: ln(ln(m))/ln(2) is
\* at least j/4 exactly when m >= e^(2^(j/4)).  Every m below 2^31 lies
\* under e^(2^(18/4)), so the table is complete for the model's values.
LogLogTable ==
    << <<3285, 1000>>, <<4114, 1000>>, <<5376, 1000>>, <<7390, 1000>>,
       <<10788, 1000>>, <<16919, 1000>>, <<28893, 1000>>, <<54599, 1000>>,
       <<116377, 1000>>, <<286247, 1000>>, <<834783, 1000>>,
       <<2980958, 1000>>, <<13544, 1>>, <<81938, 1>>, <<696862, 1>>,
       <<8886111, 1>>, <<183424527, 1>> >>

\* z_mag_sq.ln().ln() / 2.0_f64.ln() in quarters, rounded down (m >= 4, so
\* the value is at least 1/4; the f64 value lies in [j/4, (j+1)/4))
LogLogQuarter(m) ==
    LET js == {j \in 1..Len(LogLogTable) : FGe(m, LogLogTable[j])}
    IN  Norm(Cardinality(js), 4)

\* faulty variant of SmoothIter: the correction is added
SmoothIter_Plus(its, z_mag_sq) ==
    FAdd(FAdd(AsF64(its), One), LogLogQuarter(z_mag_sq))

\* iterations as f64 + 1.0 - (z_mag_sq.ln().ln() / 2.0_f64.ln())
SmoothIter(its, z_mag_sq) ==
    FSub(FAdd(AsF64(its), One), LogLogQuarter(z_mag_sq))

\* faulty variant of PixelIndex: the row stride is height
PixelIndex_HeightStride ==
    LET yh  == U32Mul(ToU32(y), ToU32(height))
        yhx == U32Add(yh.value, ToU32(x))
        i4  == U32Mul(yhx.value, ToU32(4))
    IN  [value |-> i4.value,
         overflow |-> yh.overflow \/ yhx.overflow \/ i4.overflow]

\* ((y * width + x) * 4) as usize, with the overflow of each u32 operation
PixelIndex ==
    LET yw  == U32Mul(ToU32(y), ToU32(width))
        ywx == U32Add(yw.value, ToU32(x))
        i4  == U32Mul(ywx.value, ToU32(4))
    IN  [value |-> i4.value,
         overflow |-> yw.overflow \/ ywx.overflow \/ i4.overflow]

\* (width * height * 4) as usize
BufferLen(w, h) ==
    LET wh  == U32Mul(ToU32(w), ToU32(h))
        wh4 == U32Mul(wh.value, ToU32(4))
    IN  [value |-> wh4.value, overflow |-> wh.overflow \/ wh4.overflow]

NoCall ==
    [from |-> "none", iterations |-> FromInt(0), max_iterations |-> FromInt(0),
     palette_id |-> 0, result |-> get_color(FromInt(0), FromInt(0), 0)]

ColorCall(from, its, mx, pid) ==
    [from |-> from, iterations |-> its, max_iterations |-> mx,
     palette_id |-> pid, result |-> get_color(its, mx, pid)]

Zero == FromInt(0)

\* image sizes: empty images, powers of two whose pixel coordinates are
\* integers, and sizes whose byte count does not fit in a u32
Dims ==
    { <<0, 0>>, <<0, 2>>, <<2, 0>>, <<1, 1>>, <<2, 1>>, <<1, 2>>, <<2, 2>>,
      <<4, 2>>, <<2, 4>>, <<4, 4>>,
      <<32768, 32768>>, <<65536, 65536>> }

Centers == { <<Zero, Zero>>, <<FromInt(-1), One>> }

Zooms == { One, <<1, 4>> }

IterLimits == (0..MaxIters) \cup {DeepIters}

PaletteIds == (0..MaxPaletteId) \cup {65535}

CallGenerateFractal(w, h, ccx, ccy, z, mi, pid) ==
    /\ api = "idle"
    /\ api' = "generate_fractal"
    /\ width' = w /\ height' = h /\ center_x' = ccx /\ center_y' = ccy
    /\ zoom' = z /\ max_iters' = mi /\ palette_id' = pid
    /\ LET len == BufferLen(w, h)
       IN  IF overflow_checks /\ len.overflow
           THEN /\ pc' = "panic"
                /\ UNCHANGED <<image_data, writes>>
           ELSE /\ pc' = "for_y"
                /\ image_data' = [i \in 1..FromU32(len.value) |-> 0]
                /\ writes' = [i \in 1..FromU32(len.value) |-> 0]
    /\ y' = 0
    /\ UNCHANGED <<overflow_checks, x, cx, cy, zx, zy, iterations, color_call>>
    /\ UNCHANGED bulbVars

\* for y in 0..height
ForY ==
    /\ api = "generate_fractal" /\ pc = "for_y"
    /\ IF y < height
       THEN pc' = "for_x" /\ x' = 0
       ELSE pc' = "done" /\ x' = x
    /\ UNCHANGED <<api, overflow_checks, width, height, center_x, center_y,
                   zoom, max_iters, palette_id, image_data, writes, y, cx, cy,
                   zx, zy, iterations, color_call>>
    /\ UNCHANGED bulbVars

\* for x in 0..width, up to the head of the escape loop
ForX ==
    /\ api = "generate_fractal" /\ pc = "for_x"
    /\ IF x < width
       THEN /\ cx' = PixelCx(x)
            /\ cy' = PixelCy(y)
            /\ zx' = Zero /\ zy' = Zero
            /\ iterations' = 0
            /\ pc' = "while"
            /\ y' = y
       ELSE /\ y' = y + 1
            /\ pc' = "for_y"
            /\ UNCHANGED <<cx, cy, zx, zy, iterations>>
    /\ UNCHANGED <<api, overflow_checks, width, height, center_x, center_y,
                   zoom, max_iters, palette_id, image_data, writes, x,
                   color_call>>
    /\ UNCHANGED bulbVars

\* one turn of the escape loop
WhileStep ==
    /\ api = "generate_fractal" /\ pc = "while"
    /\ LoopCond
    /\ LET tmp == FAdd(FSub(FMul(zx, zx), FMul(zy, zy)), cx)
       IN  /\ zy' = FAdd(FMul(FMul(FromInt(2), zx), zy), cy)
           /\ zx' = tmp
    /\ iterations' = iterations + 1
    /\ UNCHANGED <<api, pc, overflow_checks, width, height, center_x, center_y,
                   zoom, max_iters, palette_id, image_data, writes, x, y, cx,
                   cy, color_call>>
    /\ UNCHANGED bulbVars

\* the four stores image_data[idx .. idx + 3]
Store4(buf, idx, r, g, b, a) ==
    [i \in 1..Len(buf) |->
        IF i = idx + 1 THEN r
        ELSE IF i = idx + 2 THEN g
        ELSE IF i = idx + 3 THEN b
        ELSE IF i = idx + 4 THEN a
        ELSE buf[i]]

Count4(cnt, idx) ==
    [i \in 1..Len(cnt) |->
        IF i \in (idx + 1)..(idx + 4) THEN cnt[i] + 1 ELSE cnt[i]]

\* faulty variant of Inside: a strict comparison
Inside_Strict == iterations > max_iters

\* if iterations >= max_iters
Inside == iterations >= max_iters

\* the escape loop has ended: colour the pixel and store it
StorePixel ==
    /\ api = "generate_fractal" /\ pc = "while"
    /\ ~LoopCond
    /\ LET pi   == PixelIndex
           call == ColorCall("generate_fractal",
                             SmoothIter(iterations, MagSq(zx, zy)),
                             AsF64(max_iters), palette_id)
           inside == Inside
           rgb  == IF inside THEN <<0, 0, 0>> ELSE call.result.rgb
       IN  /\ color_call' = IF inside THEN color_call ELSE call
           /\ IF \/ overflow_checks /\ pi.overflow
                 \/ ~U32Lt(pi.value, ToU32(Len(image_data)))
                 \/ FromU32(pi.value) + 3 >= Len(image_data)
                 \/ (~inside /\ call.result.panic)
              THEN /\ pc' = "panic"
                   /\ UNCHANGED <<image_data, writes, x>>
              ELSE /\ image_data' = Store4(image_data, FromU32(pi.value),
                                           rgb[1], rgb[2], rgb[3], 255)
                   /\ writes' = Count4(writes, FromU32(pi.value))
                   /\ x' = x + 1
                   /\ pc' = "for_x"
    /\ UNCHANGED <<api, overflow_checks, width, height, center_x, center_y,
                   zoom, max_iters, palette_id, y, cx, cy, zx, zy, iterations>>
    /\ UNCHANGED bulbVars

-----------------------------------------------------------------------------
(* get_color called on its own (it is a pub fn).                           *)

\* maxima tried: the 100 of the documented example, small ones, 0, negatives
ColorMaxima == {100, 4, 1, -1, -4}

\* iterations = (k/8) * max_iterations / 4, so that scaled = k/8 exactly;
\* with a maximum of 0, iterations = k/8
ColorArgs ==
    { <<Norm(k * mx, 32), FromInt(mx)>> :
        k \in (-MaxEighths)..(32 + MaxEighths), mx \in ColorMaxima }
    \cup { <<Norm(k, 8), Zero>> : k \in (-MaxEighths)..MaxEighths }

CallGetColor(its, mx, pid) ==
    /\ api = "idle"
    /\ api' = "get_color"
    /\ color_call' = ColorCall("api", its, mx, pid)
    /\ pc' = IF color_call'.result.panic THEN "panic" ELSE "done"
    /\ UNCHANGED overflow_checks
    /\ UNCHANGED rasterVars
    /\ UNCHANGED bulbVars

-----------------------------------------------------------------------------
(* wasm-babylon-mandelbulb: the palette provider (f32 channels).           *)

BulbPALETTE0 ==
    << Color(Zero, One, One),
       Color(One, Zero, One),
       Color(Half, Zero, One),
       Color(Zero, Half, One),
       Color(One, One, Zero) >>

BulbPALETTE1 ==
    << Color(One, Zero, Half),
       Color(Zero, One, Half),
       Color(Half, Zero, One),
       Color(Zero, Half, One),
       Color(One, Half, Zero) >>

\* the struct Palette { colors }, as serde_wasm_bindgen::to_value shapes it
Palette(colors) == [colors |-> colors]

NoValue == [kind |-> "none", value |-> <<>>]

\* faulty variant of GetPalette: palette 1 is returned for id 1 only
GetPalette_OnlyId1(i) ==
    /\ api = "idle"
    /\ api' = "get_palette"
    /\ id' = i
    /\ LET colors == IF i = 1 THEN BulbPALETTE1 ELSE BulbPALETTE0
       IN  ret' = [kind |-> "JsValue", value |-> Palette(colors)]
    /\ pc' = "done"
    /\ UNCHANGED <<overflow_checks, palette, flat, color_index, color_call>>
    /\ UNCHANGED rasterVars

\* get_palette(id): the whole body
GetPalette(i) ==
    /\ api = "idle"
    /\ api' = "get_palette"
    /\ id' = i
    /\ LET colors == IF i = 0 THEN BulbPALETTE0 ELSE BulbPALETTE1
       IN  ret' = [kind |-> "JsValue", value |-> Palette(colors)]
    /\ pc' = "done"
    /\ UNCHANGED <<overflow_checks, palette, flat, color_index, color_call>>
    /\ UNCHANGED rasterVars

\* get_flat_palette(id), up to the head of the for loop
CallGetFlatPalette(i) ==
    /\ api = "idle"
    /\ api' = "get_flat_palette"
    /\ id' = i
    /\ palette' = IF i = 0 THEN BulbPALETTE0 ELSE BulbPALETTE1
    /\ flat' = <<>>
    /\ color_index' = 0
    /\ pc' = "for_color"
    /\ UNCHANGED <<overflow_checks, ret, color_call>>
    /\ UNCHANGED rasterVars

\* faulty variant of FlatPush: the padding element is not pushed
FlatPush_NoAlpha ==
    /\ api = "get_flat_palette" /\ pc = "for_color"
    /\ color_index < Len(palette)
    /\ LET color == palette[color_index + 1]
       IN  flat' = flat \o <<color.r, color.g, color.b>>
    /\ color_index' = color_index + 1
    /\ UNCHANGED <<api, pc, overflow_checks, id, palette, ret, color_call>>
    /\ UNCHANGED rasterVars

\* for color in palette.iter(): the four pushes of one turn
FlatPush ==
    /\ api = "get_flat_palette" /\ pc = "for_color"
    /\ color_index < Len(palette)
    /\ LET color == palette[color_index + 1]
       IN  flat' = flat \o <<color.r, color.g, color.b, One>>
    /\ color_index' = color_index + 1
    /\ UNCHANGED <<api, pc, overflow_checks, id, palette, ret, color_call>>
    /\ UNCHANGED rasterVars

\* the loop is exhausted: flat is returned
FlatReturn ==
    /\ api = "get_flat_palette" /\ pc = "for_color"
    /\ color_index >= Len(palette)
    /\ ret' = [kind |-> "Vec<f32>", value |-> flat]
    /\ pc' = "done"
    /\ UNCHANGED <<api, overflow_checks, id, palette, flat, color_index,
                   color_call>>
    /\ UNCHANGED rasterVars

-----------------------------------------------------------------------------
(* The host: calls follow one another; a panic aborts the call.            *)

Idle ==
    /\ api = "idle" /\ pc = "idle"
    /\ width = 0 /\ height = 0 /\ center_x = Zero /\ center_y = Zero
    /\ zoom = One /\ max_iters = 0 /\ palette_id = 0
    /\ image_data = <<>> /\ writes = <<>>
    /\ x = 0 /\ y = 0 /\ cx = Zero /\ cy = Zero /\ zx = Zero /\ zy = Zero
    /\ iterations = 0
    /\ color_call = NoCall
    /\ id = 0 /\ palette = <<>> /\ flat = <<>> /\ color_index = 0
    /\ ret = NoValue

Init ==
    /\ overflow_checks \in BOOLEAN
    /\ Idle

\* the call has returned or panicked: its frame is gone
Return ==
    /\ pc \in {"done", "panic"}
    /\ api' = "idle" /\ pc' = "idle"
    /\ width' = 0 /\ height' = 0 /\ center_x' = Zero /\ center_y' = Zero
    /\ zoom' = One /\ max_iters' = 0 /\ palette_id' = 0
    /\ image_data' = <<>> /\ writes' = <<>>
    /\ x' = 0 /\ y' = 0 /\ cx' = Zero /\ cy' = Zero /\ zx' = Zero /\ zy' = Zero
    /\ iterations' = 0
    /\ color_call' = NoCall
    /\ id' = 0 /\ palette' = <<>> /\ flat' = <<>> /\ color_index' = 0
    /\ ret' = NoValue
    /\ UNCHANGED overflow_checks

Next ==
    \/ \E d \in Dims, c \in Centers, z \in Zooms, mi \in IterLimits,
          pid \in PaletteIds :
            CallGenerateFractal(d[1], d[2], c[1], c[2], z, mi, pid)
    \/ ForY
    \/ ForX
    \/ WhileStep
    \/ StorePixel
    \/ \E a \in ColorArgs, pid \in PaletteIds : CallGetColor(a[1], a[2], pid)
    \/ \E i \in PaletteIds : GetPalette(i)
    \/ \E i \in PaletteIds : CallGetFlatPalette(i)
    \/ FlatPush
    \/ FlatReturn
    \/ Return

Spec == Init /\ [][Next]_vars

-----------------------------------------------------------------------------
(* Properties.                                                             *)

InRaster == api = "generate_fractal"

\* the pixel (x - 1, y) has just been stored
JustStored == InRaster /\ pc = "for_x" /\ x >= 1

\* the four bytes of pixel (px, py) in image_data
PixelAt(px, py) ==
    LET o == (py * width + px) * 4
    IN  <<image_data[o + 1], image_data[o + 2], image_data[o + 3],
          image_data[o + 4]>>

Black == <<0, 0, 0, 255>>

\* the escape count and final z of c = ccx + ccy*i as a function of the
\* arguments alone
RECURSIVE Escape(_, _, _, _, _, _)
Escape(ccx, ccy, a, b, n, limit) ==
    IF FLt(MagSq(a, b), Four) /\ n < limit
    THEN Escape(ccx, ccy,
                FAdd(FSub(FMul(a, a), FMul(b, b)), ccx),
                FAdd(FMul(FMul(FromInt(2), a), b), ccy),
                n + 1, limit)
    ELSE <<a, b, n>>

\* the RGBA value of pixel (px, py) as a function of (px, py) and the
\* arguments of the call
PixelValue(px, py) ==
    LET e == Escape(PixelCx(px), PixelCy(py), Zero, Zero, 0, max_iters)
    IN  IF e[3] >= max_iters
        THEN Black
        ELSE LET c == get_color(SmoothIter(e[3], MagSq(e[1], e[2])),
                                AsF64(max_iters), palette_id).rgb
             IN  <<c[1], c[2], c[3], 255>>

\* C1: generate_fractal returns, for every width and height (those whose
\* byte count overflows a u32 included), a buffer of exactly width*height*4
\* bytes whose every fourth byte is 255; it never fails on a store.
C1_BufferContract ==
    /\ InRaster => pc # "panic"
    /\ (InRaster /\ pc = "done") =>
          /\ Len(image_data) = width * height * 4
          /\ \A i \in 1..Len(image_data) : i % 4 = 0 => image_data[i] = 255

\* C2: get_palette(id) returns palette 1 in table order for every id # 0 and
\* the palette-0 table, which differs from it, for id = 0; it never fails.
C2_PaletteSelection ==
    api = "get_palette" =>
        /\ pc = "done"
        /\ ret.kind = "JsValue"
        /\ Len(ret.value.colors) = 5
        /\ id # 0 => ret.value.colors = BulbPALETTE1
        /\ id = 0 =>
              /\ ret.value.colors =
                    << Color(<<0, 1>>, <<1, 1>>, <<1, 1>>),
                       Color(<<1, 1>>, <<0, 1>>, <<1, 1>>),
                       Color(<<1, 2>>, <<0, 1>>, <<1, 1>>),
                       Color(<<0, 1>>, <<1, 2>>, <<1, 1>>),
                       Color(<<1, 1>>, <<1, 1>>, <<0, 1>>) >>
              /\ ret.value.colors # BulbPALETTE1

C2_Witness ==
    /\ api = "get_palette" /\ pc = "done"
    /\ id > 1
    /\ ret.value.colors = BulbPALETTE1

\* C3: get_flat_palette(id) returns 20 floats: elements 4i, 4i+1, 4i+2 are
\* r, g, b of colour i of the palette that id selects (0 -> palette 0, else
\* palette 1) and element 4i+3 is 1.0.
C3_FlatLayout ==
    (api = "get_flat_palette" /\ pc = "done") =>
        LET sel == IF id = 0 THEN BulbPALETTE0 ELSE BulbPALETTE1
        IN  /\ ret.kind = "Vec<f32>"
            /\ Len(ret.value) = 20
            /\ \A i \in 0..4 :
                  /\ ret.value[4 * i + 1] = sel[i + 1].r
                  /\ ret.value[4 * i + 2] = sel[i + 1].g
                  /\ ret.value[4 * i + 3] = sel[i + 1].b
                  /\ ret.value[4 * i + 4] = <<1, 1>>

C3_Witness ==
    /\ api = "get_flat_palette" /\ pc = "done"
    /\ id > 1
    /\ Len(ret.value) = 20
    /\ ret.value[1] = <<1, 1>> /\ ret.value[3] = <<1, 2>>

\* C4: the escape loop never runs more than max_iters turns; a pixel whose
\* loop ends with iterations = max_iters is stored as (0,0,0,255) whatever
\* the palette, and so is the pixel c = 0+0i with the deep iteration limit.
C4_InsideIsBlack ==
    /\ InRaster => iterations <= max_iters
    /\ (JustStored /\ iterations = max_iters) => PixelAt(x - 1, y) = Black
    /\ (JustStored /\ cx = Zero /\ cy = Zero /\ max_iters = DeepIters) =>
          /\ iterations = max_iters
          /\ PixelAt(x - 1, y) = Black

C4_Witness ==
    /\ JustStored
    /\ cx = Zero /\ cy = Zero
    /\ max_iters = DeepIters /\ iterations = DeepIters
    /\ palette_id = 1
    /\ PixelAt(x - 1, y) = Black

\* C5 as stated: with max_iters = 0 every pixel takes the smooth-colouring
\* path, that is, it is coloured through get_color.
C5_ZeroItersSmooth ==
    (JustStored /\ max_iters = 0) => color_call.from = "generate_fractal"

\* C5 amended: with max_iters = 0 the escape loop runs no turn, every pixel
\* takes the inside-the-set branch and is stored as (0,0,0,255), and
\* get_color is not evaluated.
C5_ZeroItersBlack ==
    (JustStored /\ max_iters = 0) =>
        /\ iterations = 0
        /\ color_call.from = "none"
        /\ PixelAt(x - 1, y) = Black

C5_Witness ==
    /\ JustStored /\ max_iters = 0
    /\ width = 2 /\ height = 2 /\ x = 2 /\ y = 1
    /\ PixelAt(x - 1, y) = Black

\* C6: the bytes of pixel (x, y) sit at (y*width + x)*4 .. +3, are stored
\* exactly once, and are a function of (x, y) and the arguments only: when
\* the call returns, every pixel holds PixelValue, whatever was computed
\* for the other pixels or by earlier calls.
C6_PixelsIndependent ==
    InRaster =>
        /\ \A i \in 1..Len(writes) : writes[i] <= 1
        /\ JustStored => PixelAt(x - 1, y) = PixelValue(x - 1, y)
        /\ pc = "done" =>
              /\ \A i \in 1..Len(writes) : writes[i] = 1
              /\ \A py \in 0..(height - 1), px \in 0..(width - 1) :
                    PixelAt(px, py) = PixelValue(px, py)

C6_Witness ==
    /\ InRaster /\ pc = "done"
    /\ width = 4 /\ height = 2 /\ max_iters = MaxIters
    /\ \E i \in 1..Len(image_data) : image_data[i] \notin {0, 255}
    /\ \E py \in 0..1, px \in 0..3 : PixelAt(px, py) = Black

\* C7: every evaluation of get_color made by generate_fractal gets a
\* smoothed count strictly below max_iters, so the early black return of
\* get_color is never taken from the rasterizer.
C7_SmoothBelowMax ==
    color_call.from = "generate_fractal" =>
        /\ FLt(color_call.iterations, color_call.max_iterations)
        /\ ~color_call.result.black

C7_Witness ==
    /\ JustStored
    /\ color_call.from = "generate_fractal"
    /\ max_iters = MaxIters /\ iterations = max_iters - 1
    /\ color_call.max_iterations = AsF64(max_iters)
    /\ FLt(AsF64(iterations), color_call.iterations)

\* C8: on the interpolation path of get_color the normalized position
\* iterations / max_iterations lies in [0, 1), for the smoothed counts that
\* generate_fractal passes as for any other call.
C8_NormalizedInUnit ==
    (color_call.from # "none" /\ ~color_call.result.black) =>
        /\ color_call.result.finite
        /\ FGe(color_call.result.normalized, Zero)
        /\ FLt(color_call.result.normalized, One)

\* C9: for iterations < max_iterations get_color returns, per channel, the
\* truncation of c1*(1-t) + c2*t with scaled = (iterations/max_iterations)*4,
\* idx1 = floor(scaled), idx2 = min(idx1+1, 4), t = scaled - idx1 and c1, c2
\* from the palette that palette_id selects; an integral scaled = k gives
\* palette[k] exactly.
C9_Interpolation ==
    (color_call.from = "api"
        /\ FLt(color_call.iterations, color_call.max_iterations)) =>
        LET r   == color_call.result
            pal == IF color_call.palette_id = 0 THEN PALETTE0 ELSE PALETTE1
            sc  == FMul(FDiv(color_call.iterations, color_call.max_iterations),
                        FromInt(4))
            i1  == sc[1] \div sc[2]
            i2  == Min(i1 + 1, 4)
            w   == FSub(sc, FromInt(i1))
            mix(a, b) ==
                LET v == FAdd(FMul(FromInt(a), FSub(One, w)),
                              FMul(FromInt(b), w))
                IN  v[1] \div v[2]
        IN  /\ ~r.panic
            /\ r.finite
            /\ color_call.max_iterations # Zero
            /\ i1 \in 0..4
            /\ r.idx1 = i1 /\ r.idx2 = i2
            /\ r.rgb = <<mix(pal[i1 + 1].r, pal[i2 + 1].r),
                         mix(pal[i1 + 1].g, pal[i2 + 1].g),
                         mix(pal[i1 + 1].b, pal[i2 + 1].b)>>
            /\ sc[2] = 1 =>
                  r.rgb = <<pal[i1 + 1].r, pal[i1 + 1].g, pal[i1 + 1].b>>

\* C10: get_color never indexes outside the 5-entry palette: whenever
\* iterations < max_iterations (negative values included), idx1 and idx2 are
\* in 0..4, idx2 is idx1 or idx1 + 1, and the call returns a colour.
C10_IndexInRange ==
    (color_call.from # "none" /\ ~color_call.result.black) =>
        /\ ~color_call.result.panic
        /\ color_call.result.idx1 \in 0..4
        /\ color_call.result.idx2 \in 0..4
        /\ color_call.result.idx2 \in
              {color_call.result.idx1, color_call.result.idx1 + 1}

====
